---- MODULE Spec2Model ----
(***************************************************************************)
(* Model of the KAS (all-inkl) SOAP client of terraform-provider-allinkl:  *)
(* the four DNS operations of internal/allinkl (GetDNSSettings,            *)
(* AddDNSSettings, UpdateDNSSettings, DeleteDNSSettings), the login of     *)
(* Identifier.Authentication, the flood-time wait of Client.do and         *)
(* Client.updateFloodTime, and the response resolver getValue.             *)
(*                                                                         *)
(* Each operation runs on a goroutine of its own (a member of Procs); all  *)
(* of them share one Client, i.e. floodTime and muFloodTime.  Time is a    *)
(* discrete clock `now` counted in seconds.                                *)
(***************************************************************************)
EXTENDS Integers, Sequences, FiniteSets, TLC

\* ------------------------------------------------------------------ bounds
\* Number of goroutines, each running one DNS operation on the shared client.
NumOps == 2
\* The clock runs from 0 to MaxTime.
MaxTime == 1
\* The server declares flood delays of 0..MaxDelay seconds.
MaxDelay == 1
\* Width, in bits, standing for the 64 bits of strconv.ParseInt(s, 10, 64).
IntBits == 4
\* A response body has up to MaxPad bytes of white space before and after
\* its document.
MaxPad == 1

Procs == 1..NumOps
MaxInt64 == 2^(IntBits - 1) - 1
MinInt64 == -(2^(IntBits - 1))

\* ------------------------------------------------- the generic value node
\* Item: Text, Type, Raw are strings; Key and Value are pointers, written as
\* a sequence of length 0 (nil) or 1; Items is the slice of children.
Node(text, type, raw, key, value, items) ==
  [Text |-> text, Type |-> type, Raw |-> raw, Key |-> key, Value |-> value, Items |-> items]

Leaf(type, text) == Node(text, type, "", <<>>, <<>>, <<>>)
NilNode(raw) == Node("", "", raw, <<>>, <<>>, <<>>)
Entry(key, value) == Node("", "", "", <<Leaf("xsd:string", key)>>, <<value>>, <<>>)
MapNode(items) == Node("", "ns2:Map", "", <<>>, <<>>, items)
ArrayNode(items) == Node("", "SOAP-ENC:Array", "", <<>>, <<>>, items)

\* Values of Go's `any` as getValue produces them, tagged with their dynamic type.
VBool(b) == [k |-> "bool", v |-> b]
VStr(s) == [k |-> "string", v |-> s]
VFloat(n) == [k |-> "float64", v |-> n]
VInt(n) == [k |-> "int64", v |-> n]
VList(s) == [k |-> "slice", v |-> s]
VMap(f) == [k |-> "map", v |-> f]

\* strconv.ParseBool with the error dropped: the twelve literals, else false.
ParseBool(s) == s \in {"1", "t", "T", "TRUE", "true", "True"}

\* Decimal numerals the model can read back from text.
NumeralRange == (2 * MinInt64 - MaxDelay)..(2 * MaxInt64 + 1 + MaxDelay)
IsNumeral(s) == \E n \in NumeralRange : ToString(n) = s
NumeralValue(s) == CHOOSE n \in NumeralRange : ToString(n) = s

\* strconv.ParseFloat(s, 64) with the error dropped: 0 on a syntax error.
ParseFloat(s) == IF IsNumeral(s) THEN NumeralValue(s) ELSE 0

\* strconv.ParseInt(s, 10, 64) with the error dropped: 0 on a syntax error,
\* the nearest bound of the range on a range error.
ParseInt(s) ==
  IF ~IsNumeral(s) THEN 0
  ELSE LET n == NumeralValue(s) IN
       IF n > MaxInt64 THEN MaxInt64 ELSE IF n < MinInt64 THEN MinInt64 ELSE n

getKey(item) == IF item.Key = <<>> THEN "" ELSE item.Key[1].Text

RECURSIVE getValue(_)

\* getValue as it would be if the children were appended back to front.
getValue_ArrayReversed(item) ==
  IF item.Raw # "" THEN VBool(ParseBool(item.Raw))
  ELSE IF item.Text # "" THEN
    CASE item.Type = "xsd:string" -> VStr(item.Text)
      [] item.Type = "xsd:float" -> VFloat(ParseFloat(item.Text))
      [] item.Type = "xsd:int" -> VInt(ParseInt(item.Text))
      [] OTHER -> VStr(item.Text)
  ELSE IF item.Value # <<>> THEN getValue(item.Value[1])
  ELSE IF Len(item.Items) > 0 /\ item.Type = "SOAP-ENC:Array" THEN
    VList([i \in 1..Len(item.Items) |-> getValue(item.Items[Len(item.Items) + 1 - i])])
  ELSE IF Len(item.Items) > 0 THEN
    LET n == Len(item.Items)
        last(key) == CHOOSE i \in 1..n :
                       /\ getKey(item.Items[i]) = key
                       /\ \A j \in (i + 1)..n : getKey(item.Items[j]) # key
    IN VMap([key \in {getKey(item.Items[i]) : i \in 1..n} |-> getValue(item.Items[last(key)])])
  ELSE VStr("")

\* getValue as it would be if a key, once set, were not overwritten.
getValue_FirstKeyWins(item) ==
  IF item.Raw # "" THEN VBool(ParseBool(item.Raw))
  ELSE IF item.Text # "" THEN
    CASE item.Type = "xsd:string" -> VStr(item.Text)
      [] item.Type = "xsd:float" -> VFloat(ParseFloat(item.Text))
      [] item.Type = "xsd:int" -> VInt(ParseInt(item.Text))
      [] OTHER -> VStr(item.Text)
  ELSE IF item.Value # <<>> THEN getValue(item.Value[1])
  ELSE IF Len(item.Items) > 0 /\ item.Type = "SOAP-ENC:Array" THEN
    VList([i \in 1..Len(item.Items) |-> getValue(item.Items[i])])
  ELSE IF Len(item.Items) > 0 THEN
    LET n == Len(item.Items)
        first(key) == CHOOSE i \in 1..n :
                        /\ getKey(item.Items[i]) = key
                        /\ \A j \in 1..(i - 1) : getKey(item.Items[j]) # key
    IN VMap([key \in {getKey(item.Items[i]) : i \in 1..n} |-> getValue(item.Items[first(key)])])
  ELSE VStr("")

\* getValue as it would be if the value sub-node ranked before the text.
getValue_ValueBeforeText(item) ==
  IF item.Raw # "" THEN VBool(ParseBool(item.Raw))
  ELSE IF item.Value # <<>> THEN getValue(item.Value[1])
  ELSE IF item.Text # "" THEN
    CASE item.Type = "xsd:string" -> VStr(item.Text)
      [] item.Type = "xsd:float" -> VFloat(ParseFloat(item.Text))
      [] item.Type = "xsd:int" -> VInt(ParseInt(item.Text))
      [] OTHER -> VStr(item.Text)
  ELSE IF Len(item.Items) > 0 /\ item.Type = "SOAP-ENC:Array" THEN
    VList([i \in 1..Len(item.Items) |-> getValue(item.Items[i])])
  ELSE IF Len(item.Items) > 0 THEN
    LET n == Len(item.Items)
        last(key) == CHOOSE i \in 1..n :
                       /\ getKey(item.Items[i]) = key
                       /\ \A j \in (i + 1)..n : getKey(item.Items[j]) # key
    IN VMap([key \in {getKey(item.Items[i]) : i \in 1..n} |-> getValue(item.Items[last(key)])])
  ELSE VStr("")

getValue(item) ==
  IF item.Raw # "" THEN VBool(ParseBool(item.Raw))
  ELSE IF item.Text # "" THEN
    CASE item.Type = "xsd:string" -> VStr(item.Text)
      [] item.Type = "xsd:float" -> VFloat(ParseFloat(item.Text))
      [] item.Type = "xsd:int" -> VInt(ParseInt(item.Text))
      [] OTHER -> VStr(item.Text)
  ELSE IF item.Value # <<>> THEN getValue(item.Value[1])
  ELSE IF Len(item.Items) > 0 /\ item.Type = "SOAP-ENC:Array" THEN
    VList([i \in 1..Len(item.Items) |-> getValue(item.Items[i])])
  ELSE IF Len(item.Items) > 0 THEN
    LET n == Len(item.Items)
        last(key) == CHOOSE i \in 1..n :
                       /\ getKey(item.Items[i]) = key
                       /\ \A j \in (i + 1)..n : getKey(item.Items[j]) # key
    IN VMap([key \in {getKey(item.Items[i]) : i \in 1..n} |-> getValue(item.Items[last(key)])])
  ELSE VStr("")

\* ------------------------------------------- the result mapper (line 328)
\* mapstructure.Decode(raw, result) with its default, strict configuration:
\* a struct is filled from a map by field name, a key that is absent leaves
\* the field at its zero value, and a value of another kind than the field's
\* is an error (numbers alone convert among themselves).
Field(m, name) == IF name \in DOMAIN m THEN <<m[name]>> ELSE <<>>

Decoded(val) == [err |-> FALSE, val |-> val]
DecodeFailed(zero) == [err |-> TRUE, val |-> zero]

decodeString(f) ==
  IF f = <<>> THEN Decoded("")
  ELSE IF f[1].k = "string" THEN Decoded(f[1].v) ELSE DecodeFailed("")

decodeBool(f) ==
  IF f = <<>> THEN Decoded(FALSE)
  ELSE IF f[1].k = "bool" THEN Decoded(f[1].v) ELSE DecodeFailed(FALSE)

decodeNumber(f) ==
  IF f = <<>> THEN Decoded(0)
  ELSE IF f[1].k \in {"float64", "int64"} THEN Decoded(f[1].v) ELSE DecodeFailed(0)

\* ReturnInfo, the record of one DNS entry (ID is of type any).
ZeroReturnInfo ==
  [ID |-> <<>>, ZoneHost |-> "", RecordName |-> "", RecordType |-> "",
   RecordData |-> "", Changeable |-> "", RecordAux |-> 0]

decodeReturnInfo(v) ==
  IF v.k # "map" THEN DecodeFailed(ZeroReturnInfo)
  ELSE LET zone == decodeString(Field(v.v, "record_zone"))
           name == decodeString(Field(v.v, "record_name"))
           type == decodeString(Field(v.v, "record_type"))
           data == decodeString(Field(v.v, "record_data"))
           chg  == decodeString(Field(v.v, "record_changeable"))
           aux  == decodeNumber(Field(v.v, "record_aux"))
       IN [err |-> zone.err \/ name.err \/ type.err \/ data.err \/ chg.err \/ aux.err,
           val |-> [ID |-> Field(v.v, "record_id"), ZoneHost |-> zone.val,
                    RecordName |-> name.val, RecordType |-> type.val,
                    RecordData |-> data.val, Changeable |-> chg.val,
                    RecordAux |-> aux.val]]

\* A slice field takes a slice and nothing else: a string, even the empty
\* one, is "source data must be an array or slice".
decodeSlice(f) ==
  IF f = <<>> THEN Decoded(<<>>)
  ELSE IF f[1].k # "slice" THEN DecodeFailed(<<>>)
  ELSE LET each == [i \in 1..Len(f[1].v) |-> decodeReturnInfo(f[1].v[i])]
       IN [err |-> \E i \in 1..Len(each) : each[i].err,
           val |-> [i \in 1..Len(each) |-> each[i].val]]

\* The three result structs: GetDNSSettingsAPIResponse ("slice"),
\* AddDNSSettingsAPIResponse ("string"), DeleteDNSSettingsAPIResponse ("bool").
decodeReturnInfoField(f, shape) ==
  CASE shape = "slice" -> decodeSlice(f)
    [] shape = "string" -> decodeString(f)
    [] shape = "bool" -> decodeBool(f)

ZeroResponse(shape) ==
  [KasFloodDelay |-> 0, ReturnInfo |-> decodeReturnInfoField(<<>>, shape).val]

Decode(raw, shape) ==
  IF raw.k # "map" THEN DecodeFailed(ZeroResponse(shape))
  ELSE IF Field(raw.v, "Response") = <<>> THEN Decoded(ZeroResponse(shape))
  ELSE LET r == raw.v["Response"] IN
    IF r.k # "map" THEN DecodeFailed(ZeroResponse(shape))
    ELSE LET delay == decodeNumber(Field(r.v, "KasFloodDelay"))
             info  == decodeReturnInfoField(Field(r.v, "ReturnInfo"), shape)
             str   == decodeString(Field(r.v, "ReturnString"))
         IN [err |-> delay.err \/ info.err \/ str.err,
             val |-> [KasFloodDelay |-> delay.val, ReturnInfo |-> info.val]]

\* --------------------------------------------------------------- errors
\* error values: nil, *HTTPDoError, *UnexpectedStatusCodeError, the decodeXML
\* error, *Fault, the "response struct decode" error.
NoErr == [kind |-> "nil", fault |-> <<>>, status |-> 0, body |-> <<>>]
HTTPDoError == [kind |-> "HTTPDoError", fault |-> <<>>, status |-> 0, body |-> <<>>]
\* StatusCode and Body of the error; Body is a sequence of bytes.
UnexpectedStatusCodeError(status, body) ==
  [kind |-> "UnexpectedStatusCodeError", fault |-> <<>>, status |-> status, body |-> body]
DecodeXMLError == [kind |-> "decodeXML", fault |-> <<>>, status |-> 0, body |-> <<>>]
FaultError(fault) == [kind |-> "Fault", fault |-> <<fault>>, status |-> 0, body |-> <<>>]
StructDecodeError == [kind |-> "structDecode", fault |-> <<>>, status |-> 0, body |-> <<>>]
\* A nil pointer dereference: the goroutine panics, nothing is returned.
Panic == [kind |-> "panic", fault |-> <<>>, status |-> 0, body |-> <<>>]

StatusOK == 200

\* The status check as it would be if every 2xx status were let through.
StatusAccepted_Any2xx(status) == status >= 200 /\ status <= 299
\* resp.StatusCode != http.StatusOK, negated.
StatusAccepted(status) == status = StatusOK

\* A body is a sequence of bytes; the bytes of its document stand together
\* as one element, which is not white space.
Byte(c) == [c |-> c, doc |-> <<>>]
Document(body) == [c |-> "", doc |-> <<body>>]
\* White space as bytes.TrimSpace knows it.
Space == {" ", "\t", "\n", "\r"}

\* bytes.TrimSpace: the bytes without the white space at either end.
RECURSIVE TrimLeft(_)
TrimLeft(b) == IF b # <<>> /\ Head(b).c \in Space THEN TrimLeft(Tail(b)) ELSE b
RECURSIVE TrimRight(_)
TrimRight(b) ==
  IF b # <<>> /\ b[Len(b)].c \in Space THEN TrimRight(SubSeq(b, 1, Len(b) - 1)) ELSE b
TrimSpace(b) == TrimRight(TrimLeft(b))

\* ------------------------------------------------- responses on the wire
\* A response body as decodeXML sees it: not well-formed, or an Envelope whose
\* Body holds the pointers Fault and KasApiResponse / KasAuthResponse (each a
\* sequence of length 0 or 1); a KasResponse holds the pointer Return.
Garbage == [wellformed |-> FALSE, Fault |-> <<>>, Response |-> <<>>]
Envelope(fault, response) == [wellformed |-> TRUE, Fault |-> fault, Response |-> response]
KasResponse(return) == [Return |-> return]

Faults ==
  {[Code |-> "1234", Message |-> "bad credentials", Actor |-> "login"],
   [Code |-> "flood_protection", Message |-> "too many requests", Actor |-> "KasApi"]}

\* Session tokens the server hands out.
Tokens == {"s1", "s2"}

\* What HTTPClient.Do returns: an error (net = FALSE), or a response.
NoResponse == [net |-> FALSE, status |-> 0, body |-> Garbage, pad |-> 0]
\* 200 OK, 204 No Content, 500 Internal Server Error.
Statuses == {StatusOK, 204, 500}
Pads == 0..MaxPad

\* The bytes of a response body: the document with pad bytes of white space
\* before it and as many line ends after it.
RawBody(resp) ==
  [i \in 1..resp.pad |-> Byte(" ")] \o <<Document(resp.body)>>
    \o [i \in 1..resp.pad |-> Byte("\n")]

\* NewUnexpectedResponseStatusCodeError(req, resp)
NewUnexpectedResponseStatusCodeError(resp) ==
  UnexpectedStatusCodeError(resp.status, TrimSpace(RawBody(resp)))

LoginBodies ==
  {Garbage, Envelope(<<>>, <<>>), Envelope(<<>>, <<KasResponse(<<>>)>>)}
    \cup {Envelope(<<f>>, <<>>) : f \in Faults}
    \cup {Envelope(<<>>, <<KasResponse(<<Leaf("xsd:string", t)>>)>>) : t \in Tokens}

LoginResponses ==
  {NoResponse}
    \cup {[net |-> TRUE, status |-> st, body |-> b, pad |-> n] :
            st \in Statuses, b \in LoginBodies, n \in Pads}

\* One DNS entry of a get_dns_settings answer.
RecordNode(id, name) ==
  MapNode(<<Entry("record_id", Leaf("xsd:string", id)),
            Entry("record_zone", Leaf("xsd:string", "example.com")),
            Entry("record_name", Leaf("xsd:string", name)),
            Entry("record_aux", Leaf("xsd:int", "0"))>>)

\* The ReturnInfo nodes the server answers with: an id, a boolean carried by
\* the nil attribute, and record lists of zero, one and two entries.
ReturnInfoNodes ==
  {Leaf("xsd:string", "42"), NilNode("true"), NilNode("false"),
   ArrayNode(<<>>),
   ArrayNode(<<RecordNode("7", "www")>>),
   ArrayNode(<<RecordNode("7", "www"), RecordNode("8", "mail")>>)}

ReturnNode(delay, info) ==
  MapNode(<<Entry("Request", MapNode(<<>>)),
            Entry("Response",
                  MapNode(<<Entry("KasFloodDelay", Leaf("xsd:float", ToString(delay))),
                            Entry("ReturnString", Leaf("xsd:string", "TRUE")),
                            Entry("ReturnInfo", info)>>))>>)

\* An answer whose Response carries no ReturnInfo entry at all.
ReturnNodeWithoutInfo ==
  MapNode(<<Entry("Request", MapNode(<<>>)),
            Entry("Response",
                  MapNode(<<Entry("KasFloodDelay", Leaf("xsd:float", "0")),
                            Entry("ReturnString", Leaf("xsd:string", "TRUE"))>>))>>)

APIBodies ==
  {Garbage, Envelope(<<>>, <<>>), Envelope(<<>>, <<KasResponse(<<>>)>>),
   Envelope(<<>>, <<KasResponse(<<ReturnNodeWithoutInfo>>)>>)}
    \cup {Envelope(<<f>>, <<>>) : f \in Faults}
    \cup {Envelope(<<>>, <<KasResponse(<<ReturnNode(d, i)>>)>>) :
            d \in 0..MaxDelay, i \in ReturnInfoNodes}

APIResponses ==
  {NoResponse}
    \cup {[net |-> TRUE, status |-> st, body |-> b, pad |-> n] :
            st \in Statuses, b \in APIBodies, n \in Pads}

\* ------------------------------------------------ the calls and requests
Shape(action) ==
  CASE action = "get_dns_settings" -> "slice"
    [] action = "add_dns_settings" -> "string"
    [] action = "update_dns_settings" -> "string"
    [] action = "delete_dns_settings" -> "bool"

\* context.Context: the value under tokenKey ("" when there is none) and
\* whether the context is cancelled.
Background == [token |-> "", cancelled |-> FALSE]
\* WithContext as it would be if the credential were not attached.
WithContext_Unchanged(ctx, credential) == ctx
WithContext(ctx, credential) == [ctx EXCEPT !.token = credential]
\* getToken as it would be if it never found the value under tokenKey.
getToken_None(ctx) == ""
getToken(ctx) == ctx.token

\* The account of NewClient(username, password).
Login == "w0123456"
Password == "secret"

\* json.Marshal of a DNSRequest as it would be without omitempty on record_id.
jsonDNSRequest_KeepEmptyID(record) ==
  [record_id |-> record.RecordId, zone_host |-> record.ZoneHost,
   record_type |-> record.RecordType, record_name |-> record.RecordName,
   record_data |-> record.RecordData, record_aux |-> record.RecordAux]

\* json.Marshal of a DNSRequest: the JSON object by the struct's tags;
\* record_id is left out when empty (omitempty).
jsonDNSRequest(record) ==
  IF record.RecordId = ""
    THEN [zone_host |-> record.ZoneHost,
          record_type |-> record.RecordType, record_name |-> record.RecordName,
          record_data |-> record.RecordData, record_aux |-> record.RecordAux]
    ELSE [record_id |-> record.RecordId, zone_host |-> record.ZoneHost,
          record_type |-> record.RecordType, record_name |-> record.RecordName,
          record_data |-> record.RecordData, record_aux |-> record.RecordAux]

\* json.Marshal of KasRequest.RequestParams (of type any): a DNSRequest by
\* its tags, a map[string]string key by key.
jsonRequestParams(requestParams) ==
  IF "RecordType" \in DOMAIN requestParams
    THEN jsonDNSRequest(requestParams) ELSE requestParams

\* newRequest as it would be if it authenticated each request by password.
newRequest_Plain(ctx, action, requestParams) ==
  [endpoint |-> "KasApi", Login |-> Login, AuthType |-> "plain",
   AuthData |-> Password, Action |-> action,
   RequestParams |-> jsonRequestParams(requestParams)]

\* KasRequest as newRequest fills and marshals it, and AuthRequest as
\* Authentication does; endpoint is the URL the request is posted to.
newRequest(ctx, action, requestParams) ==
  [endpoint |-> "KasApi", Login |-> Login, AuthType |-> "session",
   AuthData |-> getToken(ctx), Action |-> action,
   RequestParams |-> jsonRequestParams(requestParams)]

AuthRequest ==
  [endpoint |-> "KasAuth", Login |-> Login, AuthType |-> "plain",
   AuthData |-> Password, Action |-> "", RequestParams |-> <<>>]

\* authResult as it would be without the check of envlp.Body.Fault.
authResult_FaultUnchecked(resp) ==
  IF ~resp.net THEN [err |-> HTTPDoError, token |-> ""]
  ELSE IF ~StatusAccepted(resp.status) THEN
    [err |-> NewUnexpectedResponseStatusCodeError(resp), token |-> ""]
  ELSE IF ~resp.body.wellformed THEN [err |-> DecodeXMLError, token |-> ""]
  ELSE IF resp.body.Response = <<>> THEN [err |-> Panic, token |-> ""]
  ELSE IF resp.body.Response[1].Return = <<>> THEN [err |-> Panic, token |-> ""]
  ELSE [err |-> NoErr, token |-> resp.body.Response[1].Return[1].Text]

\* Authentication from the response of the login call on: the error or the token.
authResult(resp) ==
  IF ~resp.net THEN [err |-> HTTPDoError, token |-> ""]
  ELSE IF ~StatusAccepted(resp.status) THEN
    [err |-> NewUnexpectedResponseStatusCodeError(resp), token |-> ""]
  ELSE IF ~resp.body.wellformed THEN [err |-> DecodeXMLError, token |-> ""]
  ELSE IF resp.body.Fault # <<>> THEN [err |-> FaultError(resp.body.Fault[1]), token |-> ""]
  ELSE IF resp.body.Response = <<>> THEN [err |-> Panic, token |-> ""]
  ELSE IF resp.body.Response[1].Return = <<>> THEN [err |-> Panic, token |-> ""]
  ELSE [err |-> NoErr, token |-> resp.body.Response[1].Return[1].Text]

\* doResult as it would be without the check of envlp.Body.Fault.
doResult_FaultUnchecked(resp, shape) ==
  LET fail(e) == [err |-> e, g |-> ZeroResponse(shape), ran |-> {}] IN
  IF ~resp.net THEN fail(HTTPDoError)
  ELSE IF ~StatusAccepted(resp.status) THEN fail(NewUnexpectedResponseStatusCodeError(resp))
  ELSE IF ~resp.body.wellformed THEN fail(DecodeXMLError)
  ELSE IF resp.body.Response = <<>> THEN fail(Panic)
  ELSE IF resp.body.Response[1].Return = <<>> THEN
    [err |-> Panic, g |-> ZeroResponse(shape), ran |-> {"getValue"}]
  ELSE LET raw == getValue(resp.body.Response[1].Return[1])
           d == Decode(raw, shape)
       IN [err |-> IF d.err THEN StructDecodeError ELSE NoErr,
           g |-> IF d.err THEN ZeroResponse(shape) ELSE d.val,
           ran |-> {"getValue", "Decode"}]

\* Client.do from the response of HTTPClient.Do on: the error, the decoded
\* result, and which of the resolver (getValue) and the mapper ran.
doResult(resp, shape) ==
  LET fail(e) == [err |-> e, g |-> ZeroResponse(shape), ran |-> {}] IN
  IF ~resp.net THEN fail(HTTPDoError)
  ELSE IF ~StatusAccepted(resp.status) THEN fail(NewUnexpectedResponseStatusCodeError(resp))
  ELSE IF ~resp.body.wellformed THEN fail(DecodeXMLError)
  ELSE IF resp.body.Fault # <<>> THEN fail(FaultError(resp.body.Fault[1]))
  ELSE IF resp.body.Response = <<>> THEN fail(Panic)
  ELSE IF resp.body.Response[1].Return = <<>> THEN
    [err |-> Panic, g |-> ZeroResponse(shape), ran |-> {"getValue"}]
  ELSE LET raw == getValue(resp.body.Response[1].Return[1])
           d == Decode(raw, shape)
       IN [err |-> IF d.err THEN StructDecodeError ELSE NoErr,
           g |-> IF d.err THEN ZeroResponse(shape) ELSE d.val,
           ran |-> {"getValue", "Decode"}]

\* ---------------------------------------------------------------- state
VARIABLES
  now,          \* the wall clock, time.Now()
  floodTime,    \* Client.floodTime
  mu,           \* Client.muFloodTime: 0 when unlocked, else the goroutine holding it
  waiters,      \* goroutines blocked in muFloodTime.Lock(), in order of arrival
  pc,           \* where each goroutine stands in its operation
  call,         \* the arguments of each goroutine's operation
  ctx,          \* the operation's context
  req,          \* the *http.Request built by newRequest
  sleepUntil,   \* when the time.Sleep of do is over
  g,            \* the result struct filled by do
  ret,          \* what the operation returned: value and error
  sent,         \* the requests each operation handed to an HTTPClient.Do, in order
  rcvd,         \* what came back for each of them
  ran,          \* which of getValue and mapstructure.Decode the operation ran
  updates,      \* how often the operation called updateFloodTime
  cancelledInWait, \* the context was cancelled during the Sleep, before floodTime
  itemIn,       \* the *Item handed to getValue
  valueOut,     \* what getValue returned for it, as a pointer (nil before the call)
  tfState,      \* the Terraform state of the dns resource (resp.State), nil or a model
  diags,        \* resp.Diagnostics of the handler that ran last
  handled,      \* the handler that ran last and what the client returned to it
  config,       \* the provider configuration (allinklProviderModel)
  environ,      \* the environment variables of the provider process
  configureResp \* the ConfigureResponse of the provider

\* The state of the client and of the goroutines using it, the clock apart.
callVars == <<mu, waiters, pc, call, ctx, req, sleepUntil, g, ret, sent, rcvd, ran,
              updates, cancelledInWait>>
clientVars == <<now, floodTime, mu, waiters, pc, call, ctx, req, sleepUntil, g, ret,
                sent, rcvd, ran, updates, cancelledInWait>>
\* The state the operations of the client leave alone.
resolverVars == <<itemIn, valueOut>>
resourceVars == <<tfState, diags, handled>>
providerVars == <<config, environ, configureResp>>
nonClient == <<resolverVars, resourceVars, providerVars>>

vars == <<clientVars, nonClient>>

\* The arguments of an operation, and the deadline it found when called.
NoCall ==
  [action |-> "", token |-> "", args |-> <<>>, requestParams |-> <<>>, floodTime |-> 0]
NoReq == newRequest(Background, "", <<>>)
NoResult == [KasFloodDelay |-> 0, ReturnInfo |-> <<>>]
NoRet == [value |-> <<>>, err |-> NoErr]

\* The value node the server put under `key` in a map node, as a pointer.
EntryValue(node, key) ==
  LET at == {i \in 1..Len(node.Items) : getKey(node.Items[i]) = key}
  IN IF at = {} THEN <<>> ELSE node.Items[CHOOSE i \in at : \A j \in at : j <= i].Value

\* The number of child items of the record list node (Response.ReturnInfo)
\* of a response, -1 where it has no such node.
RecordListItems(resp) ==
  IF resp.body.Response = <<>> THEN -1
  ELSE IF resp.body.Response[1].Return = <<>> THEN -1
  ELSE LET r == EntryValue(resp.body.Response[1].Return[1], "Response") IN
    IF r = <<>> THEN -1
    ELSE LET i == EntryValue(r[1], "ReturnInfo") IN
      IF i = <<>> THEN -1
      ELSE IF i[1].Type # "SOAP-ENC:Array" THEN -1 ELSE Len(i[1].Items)

\* The text of the KasFloodDelay node of a response, "" where it has none.
DeclaredDelay(resp) ==
  IF resp.body.Response = <<>> THEN ""
  ELSE IF resp.body.Response[1].Return = <<>> THEN ""
  ELSE LET r == EntryValue(resp.body.Response[1].Return[1], "Response") IN
    IF r = <<>> THEN ""
    ELSE LET d == EntryValue(r[1], "KasFloodDelay") IN
      IF d = <<>> THEN "" ELSE d[1].Text

\* What the server answered, as the wire shows it: the transport's outcome,
\* the status, the Fault of the body, the return text of a login, the size
\* of the record list and the flood delay as written.
Received(endpoint, resp) ==
  [endpoint |-> endpoint, net |-> resp.net, status |-> resp.status,
   body |-> resp.body, pad |-> resp.pad, Fault |-> resp.body.Fault,
   token |-> IF endpoint = "KasAuth" /\ resp.body.Response # <<>>
                  /\ resp.body.Response[1].Return # <<>>
               THEN resp.body.Response[1].Return[1].Text ELSE "",
   records |-> IF endpoint = "KasApi" THEN RecordListItems(resp) ELSE -1,
   delay |-> IF endpoint = "KasApi" THEN DeclaredDelay(resp) ELSE ""]

InitClient ==
  /\ now = 0
  /\ floodTime = 0
  /\ mu = 0
  /\ waiters = <<>>
  /\ pc = [p \in Procs |-> "idle"]
  /\ call = [p \in Procs |-> NoCall]
  /\ ctx = [p \in Procs |-> Background]
  /\ req = [p \in Procs |-> NoReq]
  /\ sleepUntil = [p \in Procs |-> 0]
  /\ g = [p \in Procs |-> NoResult]
  /\ ret = [p \in Procs |-> NoRet]
  /\ sent = [p \in Procs |-> <<>>]
  /\ rcvd = [p \in Procs |-> <<>>]
  /\ ran = [p \in Procs |-> {}]
  /\ updates = [p \in Procs |-> 0]
  /\ cancelledInWait = [p \in Procs |-> FALSE]

\* ------------------------------------------------------- the provider
\* types.String of the provider configuration: null, unknown, or a value;
\* ValueString() of null and of unknown is "".
StringNull == [null |-> TRUE, unknown |-> FALSE, value |-> ""]
StringUnknown == [null |-> FALSE, unknown |-> TRUE, value |-> ""]
StringValue(v) == [null |-> FALSE, unknown |-> FALSE, value |-> v]

\* resp.Diagnostics.AddAttributeError(path.Root(attribute), summary, ...)
AddAttributeError(d, attribute, summary) ==
  Append(d, [severity |-> "error", path |-> attribute, summary |-> summary])

\* allinkl.NewClient(username, password)
NewClient(username, password) == [login |-> username, password |-> password]

\* The default as it would be if the environment went before the configuration.
Default_EnvFirst(env, configured) == IF env # "" THEN env ELSE configured.value
\* username := os.Getenv("ALLINKL_USERNAME"), overridden by the
\* configuration unless that is null (and so for the password).
Default(env, configured) == IF ~configured.null THEN configured.value ELSE env

\* The response before Configure has run.
NotConfigured == [configured |-> FALSE, Diagnostics |-> <<>>, ResourceData |-> <<>>]

\* What allinklProvider.Configure leaves in its response.
ConfigureResponse(cfg, env) ==
  LET unknownU == IF cfg.Username.unknown
                    THEN AddAttributeError(<<>>, "username", "Unknown AllInkl API Username")
                    ELSE <<>>
      unknown  == IF cfg.Password.unknown
                    THEN AddAttributeError(unknownU, "password",
                                           "Unknown AllInkl API Password")
                    ELSE unknownU
      username == Default(env.ALLINKL_USERNAME, cfg.Username)
      password == Default(env.ALLINKL_PASSWORD, cfg.Password)
      missingU == IF username = ""
                    THEN AddAttributeError(<<>>, "username", "Missing AllInkl API Username")
                    ELSE <<>>
      missing  == IF password = ""
                    THEN AddAttributeError(missingU, "password",
                                           "Missing AllInkl API Password")
                    ELSE missingU
  IN IF unknown # <<>>
       THEN [configured |-> TRUE, Diagnostics |-> unknown, ResourceData |-> <<>>]
     ELSE IF missing # <<>>
       THEN [configured |-> TRUE, Diagnostics |-> missing, ResourceData |-> <<>>]
     ELSE [configured |-> TRUE, Diagnostics |-> <<>>,
           ResourceData |-> <<NewClient(username, password)>>]

\* The provider whose client the operations run on: configured with the
\* account, nothing in the environment.
InitProvider ==
  /\ config = [Username |-> StringValue(Login), Password |-> StringValue(Password)]
  /\ environ = [ALLINKL_USERNAME |-> "", ALLINKL_PASSWORD |-> ""]
  /\ configureResp = ConfigureResponse(config, environ)

\* No node is being resolved apart from the client's own calls.
NoItem == Node("", "", "", <<>>, <<>>, <<>>)

\* No handler of the resource has run.
NoHandler ==
  [handler |-> "", id |-> <<>>, change |-> <<>>, list |-> <<>>, deleted |-> <<>>,
   set |-> FALSE, crashed |-> FALSE]

InitResource ==
  /\ tfState = <<>>
  /\ diags = <<>>
  /\ handled = NoHandler

Init ==
  /\ InitClient
  /\ itemIn = NoItem
  /\ valueOut = <<>>
  /\ InitResource
  /\ InitProvider

\* ------------------------------------------------------------- operations
\* return: the locals of the call are gone, the caller holds value and error.
Return(p, value, err) ==
  /\ pc' = [pc EXCEPT ![p] = IF err = Panic THEN "panicked" ELSE "done"]
  /\ ret' = [ret EXCEPT ![p] = [value |-> value, err |-> err]]
  /\ ctx' = [ctx EXCEPT ![p] = Background]
  /\ req' = [req EXCEPT ![p] = NoReq]
  /\ g' = [g EXCEPT ![p] = NoResult]

\* The zero value an operation returns beside an error.
ZeroValue(action) == ZeroResponse(Shape(action)).ReturnInfo

\* ctx = WithContext(ctx, credential); req, err := c.newRequest(ctx, ...);
\* the operation then enters do.
Prepare(p, c, action, requestParams, credential) ==
  /\ ctx' = [ctx EXCEPT ![p] = WithContext(c, credential)]
  /\ req' = [req EXCEPT ![p] = newRequest(WithContext(c, credential), action, requestParams)]
  /\ pc' = [pc EXCEPT ![p] = "do"]

\* A goroutine calls an operation (its first, or the next one after the one
\* before has returned), and Identifier.Authentication runs up to its
\* HTTPClient.Do: a token on the context is returned as it is, otherwise the
\* login request goes out.
Authentication(p, c, action, args, requestParams) ==
  /\ pc[p] \in {"idle", "done"}
  /\ call' = [call EXCEPT ![p] =
                [action |-> action, token |-> c.token, args |-> args,
                 requestParams |-> requestParams, floodTime |-> floodTime]]
  /\ ret' = [ret EXCEPT ![p] = NoRet]
  /\ rcvd' = [rcvd EXCEPT ![p] = <<>>]
  /\ ran' = [ran EXCEPT ![p] = {}]
  /\ updates' = [updates EXCEPT ![p] = 0]
  /\ IF getToken(c) # ""
       THEN /\ Prepare(p, c, action, requestParams, getToken(c))
            /\ sent' = [sent EXCEPT ![p] = <<>>]
       ELSE /\ sent' = [sent EXCEPT ![p] = <<AuthRequest>>]
            /\ ctx' = [ctx EXCEPT ![p] = c]
            /\ pc' = [pc EXCEPT ![p] = "login"]
            /\ UNCHANGED req
  /\ UNCHANGED nonClient
  /\ UNCHANGED <<now, floodTime, mu, waiters, sleepUntil, g, cancelledInWait>>

\* The contexts callers pass in: without a token, or with one attached.
Contexts == {Background, WithContext(Background, "t0")}
Zones == {"example.com"}
RecordIDs == {"", "7"}

\* DNSRequest.
DNSRequest(recordID) ==
  [RecordId |-> recordID, ZoneHost |-> "example.com", RecordType |-> "A",
   RecordName |-> "www", RecordData |-> "1.2.3.4", RecordAux |-> 0]
\* The records callers pass to AddDNSSettings and UpdateDNSSettings.
Records == {DNSRequest(recordID) : recordID \in RecordIDs}

GetDNSSettings(p, c, zone, recordID) ==
  Authentication(p, c, "get_dns_settings", [zone |-> zone, recordID |-> recordID],
                 IF recordID # "" THEN [zone_host |-> zone, record_id |-> recordID]
                 ELSE [zone_host |-> zone])

AddDNSSettings(p, c, record) ==
  Authentication(p, c, "add_dns_settings", [record |-> record], record)

UpdateDNSSettings(p, c, record) ==
  Authentication(p, c, "update_dns_settings", [record |-> record], record)

DeleteDNSSettings(p, c, recordID) ==
  Authentication(p, c, "delete_dns_settings", [recordID |-> recordID],
                 [record_id |-> recordID])

\* The rest of Authentication, from the answer to the login request on.
AuthenticationResponse(p, resp) ==
  /\ pc[p] = "login"
  /\ rcvd' = [rcvd EXCEPT ![p] = Append(@, Received("KasAuth", resp))]
  /\ LET a == authResult(resp) IN
       IF a.err # NoErr
         THEN Return(p, ZeroValue(call[p].action), a.err)
         ELSE /\ Prepare(p, ctx[p], call[p].action, call[p].requestParams, a.token)
              /\ UNCHANGED <<ret, g>>
  /\ UNCHANGED nonClient
  /\ UNCHANGED <<now, floodTime, mu, waiters, call, sleepUntil, sent, ran,
                 updates, cancelledInWait>>

\* doLock as it would be if do read floodTime without taking the mutex.
doLock_NoLock(p) ==
  /\ pc[p] = "do"
  /\ pc' = [pc EXCEPT ![p] = "sleep"]
  /\ sleepUntil' = [sleepUntil EXCEPT ![p] = floodTime]
  /\ UNCHANGED nonClient
  /\ UNCHANGED <<now, floodTime, mu, waiters, call, ctx, req, g, ret, sent, rcvd, ran,
                 updates, cancelledInWait>>

\* do, line 309: c.muFloodTime.Lock(). A free mutex is taken at once, also
\* past goroutines that wait for it; otherwise the goroutine queues. With
\* the mutex held, line 310 starts time.Sleep(time.Until(c.floodTime)).
doLock(p) ==
  /\ pc[p] = "do"
  /\ IF mu = 0
       THEN /\ mu' = p
            /\ pc' = [pc EXCEPT ![p] = "sleep"]
            /\ sleepUntil' = [sleepUntil EXCEPT ![p] = floodTime]
            /\ UNCHANGED waiters
       ELSE /\ waiters' = Append(waiters, p)
            /\ pc' = [pc EXCEPT ![p] = "blocked"]
            /\ UNCHANGED <<mu, sleepUntil>>
  /\ UNCHANGED nonClient
  /\ UNCHANGED <<now, floodTime, call, ctx, req, g, ret, sent, rcvd, ran,
                 updates, cancelledInWait>>

\* A blocked Lock() returns: the mutex is free and the goroutine is the first
\* of the queue.
doAcquire(p) ==
  /\ pc[p] = "blocked"
  /\ mu = 0
  /\ waiters # <<>> /\ Head(waiters) = p
  /\ mu' = p
  /\ waiters' = Tail(waiters)
  /\ pc' = [pc EXCEPT ![p] = "sleep"]
  /\ sleepUntil' = [sleepUntil EXCEPT ![p] = floodTime]
  /\ UNCHANGED nonClient
  /\ UNCHANGED <<now, floodTime, call, ctx, req, g, ret, sent, rcvd, ran,
                 updates, cancelledInWait>>

\* time.Sleep returns, no earlier than asked, whatever the context says;
\* line 311: c.muFloodTime.Unlock().
doUnlock(p) ==
  /\ pc[p] = "sleep"
  /\ now >= sleepUntil[p]
  /\ mu' = 0
  /\ pc' = [pc EXCEPT ![p] = "send"]
  /\ sleepUntil' = [sleepUntil EXCEPT ![p] = 0]
  /\ cancelledInWait' = [cancelledInWait EXCEPT ![p] = FALSE]
  /\ UNCHANGED nonClient
  /\ UNCHANGED <<now, floodTime, waiters, call, ctx, req, g, ret, sent, rcvd,
                 ran, updates>>

\* do, line 312: c.HTTPClient.Do(req). On a context that is cancelled already
\* Do fails and nothing goes out; otherwise the request is sent.
doSend(p) ==
  /\ pc[p] = "send"
  /\ IF ctx[p].cancelled
       THEN /\ Return(p, ZeroValue(call[p].action), HTTPDoError)
            /\ UNCHANGED sent
       ELSE /\ sent' = [sent EXCEPT ![p] = Append(@, req[p])]
            /\ pc' = [pc EXCEPT ![p] = "receive"]
            /\ UNCHANGED <<ctx, req, g, ret>>
  /\ UNCHANGED nonClient
  /\ UNCHANGED <<now, floodTime, mu, waiters, call, sleepUntil, rcvd, ran,
                 updates, cancelledInWait>>

\* doReceive as it would be if a failed request were sent once more.
doReceive_Retry(p, resp) ==
  /\ pc[p] = "receive"
  /\ rcvd' = [rcvd EXCEPT ![p] = Append(@, Received("KasApi", resp))]
  /\ LET d == doResult(resp, Shape(call[p].action)) IN
       /\ ran' = [ran EXCEPT ![p] = d.ran]
       /\ IF d.err # NoErr /\ Len(sent[p]) < 3
            THEN /\ pc' = [pc EXCEPT ![p] = "send"]
                 /\ UNCHANGED <<ret, ctx, req, g>>
            ELSE IF d.err # NoErr
            THEN Return(p, ZeroValue(call[p].action), d.err)
            ELSE /\ g' = [g EXCEPT ![p] = d.g]
                 /\ pc' = [pc EXCEPT ![p] = "update"]
                 /\ UNCHANGED <<ret, ctx, req>>
  /\ UNCHANGED nonClient
  /\ UNCHANGED <<now, floodTime, mu, waiters, call, sleepUntil, sent, updates,
                 cancelledInWait>>

\* doReceive as it would be if a failed call, too, moved the deadline.
doReceive_UpdateOnError(p, resp) ==
  /\ pc[p] = "receive"
  /\ rcvd' = [rcvd EXCEPT ![p] = Append(@, Received("KasApi", resp))]
  /\ LET d == doResult(resp, Shape(call[p].action)) IN
       /\ ran' = [ran EXCEPT ![p] = d.ran]
       /\ IF d.err # NoErr
            THEN /\ Return(p, ZeroValue(call[p].action), d.err)
                 /\ floodTime' = now
            ELSE /\ g' = [g EXCEPT ![p] = d.g]
                 /\ pc' = [pc EXCEPT ![p] = "update"]
                 /\ UNCHANGED <<ret, ctx, req, floodTime>>
  /\ UNCHANGED nonClient
  /\ UNCHANGED <<now, mu, waiters, call, sleepUntil, sent, updates, cancelledInWait>>

\* do, lines 312-332: HTTPClient.Do returns and the response is checked,
\* decoded, resolved and mapped; on an error the operation returns it.
doReceive(p, resp) ==
  /\ pc[p] = "receive"
  /\ rcvd' = [rcvd EXCEPT ![p] = Append(@, Received("KasApi", resp))]
  /\ LET d == doResult(resp, Shape(call[p].action)) IN
       /\ ran' = [ran EXCEPT ![p] = d.ran]
       /\ IF d.err # NoErr
            THEN Return(p, ZeroValue(call[p].action), d.err)
            ELSE /\ g' = [g EXCEPT ![p] = d.g]
                 /\ pc' = [pc EXCEPT ![p] = "update"]
                 /\ UNCHANGED <<ret, ctx, req>>
  /\ UNCHANGED nonClient
  /\ UNCHANGED <<now, floodTime, mu, waiters, call, sleepUntil, sent, updates,
                 cancelledInWait>>

\* The deadline as it would be if the delay were added to the old deadline.
FloodTimeAfter_FromOld(old, time, delay) == old + delay
\* c.floodTime = time.Now().Add(time.Duration(delay * float64(time.Second)))
FloodTimeAfter(old, time, delay) == time + delay

\* updateFloodTime as it would be without muFloodTime.Lock().
updateFloodTime_NoLock(p) ==
  /\ pc[p] = "update"
  /\ floodTime' = FloodTimeAfter(floodTime, now, g[p].KasFloodDelay)
  /\ updates' = [updates EXCEPT ![p] = @ + 1]
  /\ Return(p, g[p].ReturnInfo, NoErr)
  /\ UNCHANGED nonClient
  /\ UNCHANGED <<now, mu, waiters, call, sleepUntil, sent, rcvd, ran, cancelledInWait>>

\* updateFloodTime(g.Response.KasFloodDelay), under the mutex, and the return
\* of g.Response.ReturnInfo.
updateFloodTime(p) ==
  /\ pc[p] = "update"
  /\ mu = 0
  /\ floodTime' = FloodTimeAfter(floodTime, now, g[p].KasFloodDelay)
  /\ updates' = [updates EXCEPT ![p] = @ + 1]
  /\ Return(p, g[p].ReturnInfo, NoErr)
  /\ UNCHANGED nonClient
  /\ UNCHANGED <<now, mu, waiters, call, sleepUntil, sent, rcvd, ran, cancelledInWait>>

\* The caller cancels the context of an operation that is on its way to the
\* HTTPClient.Do of do. (A cancellation while a Do is under way makes that Do
\* fail, which is the answer NoResponse.)
Cancel(p) ==
  /\ pc[p] \in {"do", "blocked", "sleep", "send"}
  /\ ~ctx[p].cancelled
  /\ ctx' = [ctx EXCEPT ![p].cancelled = TRUE]
  /\ cancelledInWait' =
       [cancelledInWait EXCEPT ![p] = pc[p] = "sleep" /\ now < sleepUntil[p]]
  /\ UNCHANGED nonClient
  /\ UNCHANGED <<now, floodTime, mu, waiters, pc, call, req, sleepUntil, g, ret,
                 sent, rcvd, ran, updates>>

\* Time passes.
Tick ==
  /\ now < MaxTime
  /\ now' = now + 1
  /\ UNCHANGED nonClient
  /\ UNCHANGED <<floodTime, mu, waiters, pc, call, ctx, req, sleepUntil, g, ret,
                 sent, rcvd, ran, updates, cancelledInWait>>

\* The answers of the server in the runs of several goroutines: the login
\* fails in transport or yields a token; a call fails in transport, is
\* answered by a Fault, or by a result with a flood delay.
FewLoginResponses ==
  {NoResponse,
   [net |-> TRUE, status |-> StatusOK, pad |-> 0,
    body |-> Envelope(<<>>, <<KasResponse(<<Leaf("xsd:string", "s1")>>)>>)]}

FewReturnInfoNodes ==
  {Leaf("xsd:string", "42"), NilNode("true"), ArrayNode(<<RecordNode("7", "www")>>)}

FewAPIResponses ==
  {NoResponse}
    \cup {[net |-> TRUE, status |-> StatusOK, pad |-> 0, body |-> Envelope(<<f>>, <<>>)] :
            f \in {[Code |-> "flood_protection", Message |-> "too many requests",
                    Actor |-> "KasApi"]}}
    \cup {[net |-> TRUE, status |-> StatusOK, pad |-> 0,
           body |-> Envelope(<<>>, <<KasResponse(<<ReturnNode(d, i)>>)>>)] :
            d \in 0..MaxDelay, i \in FewReturnInfoNodes}

\* The steps of the goroutines ps, called with the record ids ids and with
\* the records adds and upds, the server answering from logins and apis,
\* that need no other goroutine.
StepAlone(ps, ids, adds, upds, logins, apis) ==
  \/ \E p \in ps, c \in Contexts, zone \in Zones, recordID \in ids :
       GetDNSSettings(p, c, zone, recordID)
  \/ \E p \in ps, c \in Contexts, record \in adds : AddDNSSettings(p, c, record)
  \/ \E p \in ps, c \in Contexts, record \in upds : UpdateDNSSettings(p, c, record)
  \/ \E p \in ps, c \in Contexts : DeleteDNSSettings(p, c, "7")
  \/ \E p \in ps, resp \in logins : AuthenticationResponse(p, resp)
  \/ \E p \in ps : doLock(p)
  \/ \E p \in ps : doUnlock(p)
  \/ \E p \in ps : doSend(p)
  \/ \E p \in ps, resp \in apis : doReceive(p, resp)
  \/ \E p \in ps : updateFloodTime(p)
  \/ \E p \in ps : Cancel(p)
  \/ Tick

\* With several goroutines, one that found the mutex taken gets it later.
Step(ps, ids, adds, upds, logins, apis) ==
  \/ StepAlone(ps, ids, adds, upds, logins, apis)
  \/ \E p \in ps : doAcquire(p)

\* Spec: NumOps goroutines use the client concurrently.
Next ==
  Step(Procs, {"7"}, {DNSRequest("")}, {DNSRequest("7")}, FewLoginResponses, FewAPIResponses)

Spec == Init /\ [][Next]_vars

\* SpecCall: one goroutine calls operation after operation, and the server
\* answers with any of the responses; the mutex is never contended.
NextCall == StepAlone({1}, RecordIDs, Records, Records, LoginResponses, APIResponses)

SpecCall == Init /\ [][NextCall]_vars

\* ---------------------------------------------------- the resolver alone
\* Longest slice of children of the nodes handed to getValue.
MaxItems == 2

\* Scalar nodes: typed texts (numerals in and out of the range of an int64,
\* and a text that is no numeral), and nil attributes.
ScalarTexts == {"7", "8", "-9", "abc", "true"}
ScalarTypes == {"xsd:string", "xsd:float", "xsd:int", "xsd:boolean"}
ScalarNodes ==
  {Leaf(t, x) : t \in ScalarTypes, x \in ScalarTexts}
    \cup {NilNode(r) : r \in {"true", "false", "1", "yes"}}

\* Children of a node: keyed entries (two of them under the same key), a
\* scalar without a key, and an array of its own.
ChildNodes ==
  {Entry("a", Leaf("xsd:string", "x")), Entry("a", Leaf("xsd:int", "7")),
   Entry("b", NilNode("true")), Leaf("xsd:string", "y"),
   Entry("c", ArrayNode(<<Leaf("xsd:int", "7"), Leaf("xsd:string", "z")>>))}

ChildLists == UNION {[1..n -> ChildNodes] : n \in 0..MaxItems}

\* Every combination of the fields getValue looks at.
CompositeNodes ==
  {Node(text, type, raw, <<>>, val, items) :
     text \in {"", "7"}, type \in {"SOAP-ENC:Array", "ns2:Map", "xsd:int"},
     raw \in {"", "true"}, val \in {<<>>, <<Leaf("xsd:string", "v")>>},
     items \in ChildLists}

ResolverInputs == ScalarNodes \cup CompositeNodes

InitValue ==
  /\ InitClient
  /\ InitResource
  /\ InitProvider
  /\ itemIn \in ResolverInputs
  /\ valueOut = <<>>

\* raw := getValue(item)
Resolve ==
  /\ valueOut = <<>>
  /\ valueOut' = <<getValue(itemIn)>>
  /\ UNCHANGED <<itemIn, clientVars, resourceVars, providerVars>>

NextValue == Resolve

\* SpecValue: getValue is applied to one node.
SpecValue == InitValue /\ [][NextValue]_vars

\* ------------------------------------------------- the resource adapter
\* Longest import identifier, in characters.
MaxIDLen == 3

\* types.String / types.Int64: null, or a value (a sequence of length 0 or 1).
Null == <<>>
\* ValueString(): the empty string for null.
ValueString(v) == IF v = Null THEN "" ELSE v[1]

dnsResourceModel(id, lastUpdated, zoneHost, recordType, recordName, recordData, recordAux) ==
  [ID |-> id, LastUpdated |-> lastUpdated, ZoneHost |-> zoneHost,
   RecordType |-> recordType, RecordName |-> recordName, RecordData |-> recordData,
   RecordAux |-> recordAux]

\* time.Now().Format(time.RFC850), for the clock standing at t.
RFC850(t) == [rfc850 |-> t]

\* The plans Terraform hands to Create and Update: the configuration, the
\* id unknown (Create) or taken from the state (Update).
Plan(id, recordName) ==
  dnsResourceModel(id, Null, <<"example.com">>, <<"A">>, <<recordName>>, <<"1.2.3.4">>, <<0>>)
RecordNames == {"www", "mail"}

\* resp.Diagnostics.AddError(summary, detail)
AddError(d, summary, detail) ==
  Append(d, [severity |-> "error", summary |-> summary, detail |-> detail])
\* The detail of a diagnostic: its text, the id it names, the error whose
\* Error() it ends with, and the count of records it states.
Detail(text, id, err, count) == [text |-> text, id |-> id, err |-> err, count |-> count]
HasError(d) == \E i \in 1..Len(d) : d[i].severity = "error"

\* What the operation `action` of the client returns to a handler, its login
\* answered by login and its request by resp: the value, the error, whether
\* it went through the flood wait of do, and the delay it handed to
\* updateFloodTime.
ClientReturn(action, login, resp) ==
  LET a == authResult(login) IN
  IF a.err # NoErr
    THEN [value |-> ZeroValue(action), err |-> a.err, waited |-> FALSE, delay |-> 0]
    ELSE LET d == doResult(resp, Shape(action)) IN
      IF d.err # NoErr
        THEN [value |-> ZeroValue(action), err |-> d.err, waited |-> TRUE, delay |-> 0]
        ELSE [value |-> d.g.ReturnInfo, err |-> NoErr, waited |-> TRUE,
              delay |-> d.g.KasFloodDelay]

ClientReturns(action) ==
  {ClientReturn(action, login, resp) : login \in LoginResponses, resp \in APIResponses}

\* What the operations the handlers call can return.
AddReturns == ClientReturns("add_dns_settings")
GetReturns == ClientReturns("get_dns_settings")
UpdateReturns == ClientReturns("update_dns_settings")
DeleteReturns == ClientReturns("delete_dns_settings")

\* The clock after a call that began at time t under the deadline f (the
\* Sleep of do), and the deadline after it (updateFloodTime).
TimeAfter(t, f, r) == IF r.waited /\ f > t THEN f ELSE t
DeadlineAfter(t, f, r) ==
  IF r.err = NoErr THEN FloodTimeAfter(f, TimeAfter(t, f, r), r.delay) ELSE f

\* The handler panicked (a nil pointer dereference in the client).
Crash(name) ==
  /\ handled' = [NoHandler EXCEPT !.handler = name, !.crashed = TRUE]
  /\ diags' = <<>>
  /\ UNCHANGED tfState

\* dnsResource.Create
Create(plan, r) ==
  /\ tfState = <<>>
  /\ floodTime <= MaxTime
  /\ now' = TimeAfter(now, floodTime, r)
  /\ floodTime' = DeadlineAfter(now, floodTime, r)
  /\ IF r.err = Panic THEN Crash("Create")
     ELSE /\ handled' = [NoHandler EXCEPT !.handler = "Create", !.change = <<r>>,
                                          !.set = (r.err = NoErr)]
          /\ IF r.err # NoErr
               THEN /\ diags' = AddError(<<>>, "Error Creating AllInkl DNS",
                                     Detail("Could not create dns, unexpected error: ",
                                            "", r.err, 0))
                    /\ UNCHANGED tfState
               ELSE /\ diags' = <<>>
                    /\ tfState' = <<[plan EXCEPT !.ID = <<r.value>>,
                                                 !.LastUpdated = <<RFC850(now')>>]>>
  /\ UNCHANGED <<callVars, resolverVars, providerVars>>

\* The cardinality check as it would be without the test for more than one.
dnsCountError_ZeroOnly(dnsCount) ==
  IF dnsCount = 0 THEN <<"no records found, expected 1">> ELSE <<>>

\* The checks of dnsCount in Read and Update: the detail of the error, if any.
dnsCountError(dnsCount) ==
  IF dnsCount = 0 THEN <<"no records found, expected 1">>
  ELSE IF dnsCount > 1 THEN <<"found %d records, expected 1">>
  ELSE <<>>

\* The end of Read and of Update alike: the outcome of GetDNSSettings is
\* checked and the state set from the one record.
Refresh(name, id, lastUpdated, change, r) ==
  IF r.err = Panic THEN Crash(name)
  ELSE LET h == [NoHandler EXCEPT !.handler = name, !.change = change, !.list = <<r>>] IN
    IF r.err # NoErr
      THEN /\ diags' = AddError(<<>>, "Error Reading AllInkl DNS",
                                Detail("Could not read AllInkl dns ID ",
                                       ValueString(id), r.err, 0))
           /\ handled' = h
           /\ UNCHANGED tfState
      ELSE IF dnsCountError(Len(r.value)) # <<>>
      THEN /\ diags' = AddError(<<>>, "Error Reading AllInkl DNS",
                                Detail(dnsCountError(Len(r.value))[1],
                                       ValueString(id), NoErr, Len(r.value)))
           /\ handled' = h
           /\ UNCHANGED tfState
      ELSE /\ diags' = <<>>
           /\ handled' = [h EXCEPT !.set = TRUE]
           /\ tfState' = <<dnsResourceModel(id, lastUpdated,
                                            <<r.value[1].ZoneHost>>,
                                            <<r.value[1].RecordType>>,
                                            <<r.value[1].RecordName>>,
                                            <<r.value[1].RecordData>>,
                                            <<r.value[1].RecordAux>>)>>

\* dnsResource.Read
Read(r) ==
  /\ tfState # <<>>
  /\ floodTime <= MaxTime
  /\ now' = TimeAfter(now, floodTime, r)
  /\ floodTime' = DeadlineAfter(now, floodTime, r)
  /\ Refresh("Read", tfState[1].ID, Null, <<>>, r)
  /\ UNCHANGED <<callVars, resolverVars, providerVars>>

\* dnsResource.Update: UpdateDNSSettings returns u, and GetDNSSettings, if
\* it comes to be called, one of GetReturns.
Update(plan, u) ==
  /\ tfState # <<>>
  /\ plan.ID = tfState[1].ID
  /\ floodTime <= MaxTime
  /\ LET t1 == TimeAfter(now, floodTime, u)
         f1 == DeadlineAfter(now, floodTime, u)
     IN IF u.err = Panic
          THEN /\ Crash("Update")
               /\ now' = t1 /\ floodTime' = f1
        ELSE IF u.err # NoErr
          THEN /\ diags' = AddError(<<>>, "Error Updating AllInkl DNS",
                                          Detail("Could not update dns, unexpected error: ",
                                                 "", u.err, 0))
               /\ handled' = [NoHandler EXCEPT !.handler = "Update", !.change = <<u>>]
               /\ now' = t1 /\ floodTime' = f1
               /\ UNCHANGED tfState
          ELSE \E r \in GetReturns :
               /\ now' = TimeAfter(t1, f1, r)
               /\ floodTime' = DeadlineAfter(t1, f1, r)
               /\ Refresh("Update", plan.ID, <<RFC850(now')>>, <<u>>, r)
  /\ UNCHANGED <<callVars, resolverVars, providerVars>>

\* An import identifier is a string, written as the sequence of its characters.
IDChars == {"z", "7", "/"}
ImportIDs == UNION {[1..n -> IDChars] : n \in 0..MaxIDLen}

\* The string that the characters of s spell.
RECURSIVE Str(_)
Str(s) == IF s = <<>> THEN "" ELSE s[1] \o Str(Tail(s))

\* strings.Index(s, "/"): the index, from 0, of the first "/", or -1.
Index_Last(s) ==
  IF \A i \in 1..Len(s) : s[i] # "/" THEN -1
  ELSE (CHOOSE i \in 1..Len(s) : s[i] = "/" /\ \A j \in (i + 1)..Len(s) : s[j] # "/") - 1
Index(s) ==
  IF \A i \in 1..Len(s) : s[i] # "/" THEN -1
  ELSE (CHOOSE i \in 1..Len(s) : s[i] = "/" /\ \A j \in 1..(i - 1) : s[j] # "/") - 1

\* The split of ImportState: zoneHost and recordID.
SplitID(id) ==
  IF id = <<>> THEN [zoneHost |-> <<>>, recordID |-> <<>>]
  ELSE IF Index(id) = -1 THEN [zoneHost |-> id, recordID |-> <<>>]
  ELSE [zoneHost |-> SubSeq(id, 1, Index(id)),
        recordID |-> SubSeq(id, Index(id) + 2, Len(id))]

\* dnsResource.ImportState, on the empty state of an import.
ImportState(id) ==
  /\ tfState = <<>>
  /\ LET split == SplitID(id) IN
       IF split.recordID = <<>> \/ split.zoneHost = <<>>
         THEN /\ diags' = AddError(<<>>, "Invalid Import ID",
                                   Detail("Expected import ID in the format zone_host/record_id, got: ",
                                          Str(id), NoErr, 0))
              /\ handled' = [NoHandler EXCEPT !.handler = "ImportState", !.id = <<id>>]
              /\ UNCHANGED tfState
         ELSE /\ diags' = <<>>
              /\ handled' = [NoHandler EXCEPT !.handler = "ImportState", !.id = <<id>>,
                                              !.set = TRUE]
              /\ tfState' = <<dnsResourceModel(<<Str(split.recordID)>>, Null,
                                               <<Str(split.zoneHost)>>,
                                               Null, Null, Null, Null)>>
  /\ UNCHANGED <<clientVars, resolverVars, providerVars>>

\* dnsResource.Delete: DeleteDNSSettings returns r. When the handler adds no
\* error, Terraform removes the resource from its state. A false answer
\* that comes without an error has the handler call Error() on a nil error.
Delete(r) ==
  /\ tfState # <<>>
  /\ floodTime <= MaxTime
  /\ now' = TimeAfter(now, floodTime, r)
  /\ floodTime' = DeadlineAfter(now, floodTime, r)
  /\ IF r.err = Panic THEN Crash("Delete")
     ELSE IF ~r.value /\ r.err = NoErr
     THEN /\ handled' = [NoHandler EXCEPT !.handler = "Delete", !.deleted = <<r>>,
                                          !.crashed = TRUE]
          /\ diags' = <<>>
          /\ UNCHANGED tfState
     ELSE /\ handled' = [NoHandler EXCEPT !.handler = "Delete", !.deleted = <<r>>]
          /\ IF ~r.value
               THEN /\ diags' = AddError(<<>>, "Error Deleting AllInkl DNS",
                                         Detail("Could not delete dns, unexpected error: ",
                                                "", r.err, 0))
                    /\ UNCHANGED tfState
               ELSE /\ diags' = <<>>
                    /\ tfState' = <<>>
  /\ UNCHANGED <<callVars, resolverVars, providerVars>>

NextResource ==
  \/ \E name \in RecordNames, r \in AddReturns : Create(Plan(Null, name), r)
  \/ \E r \in GetReturns : Read(r)
  \/ \E u \in UpdateReturns : Update(Plan(tfState[1].ID, "mail"), u)
  \/ \E id \in ImportIDs : ImportState(id)
  \/ \E r \in DeleteReturns : Delete(r)

\* SpecResource: Terraform calls the handlers of the dns resource one after
\* another, the client answering each call with anything it can return.
SpecResource == Init /\ [][NextResource]_vars

\* ------------------------------------------------ configuring the provider
\* The configurations and environments Configure is called with: each
\* attribute null, unknown, empty or set; each variable unset or set.
Configs ==
  {[Username |-> u, Password |-> pw] :
     u \in {StringNull, StringUnknown, StringValue(""), StringValue("alice")},
     pw \in {StringNull, StringUnknown, StringValue(""), StringValue("pw1")}}
Environs ==
  {[ALLINKL_USERNAME |-> u, ALLINKL_PASSWORD |-> pw] :
     u \in {"", "bob"}, pw \in {"", "hunter2"}}

InitConfigure ==
  /\ InitClient
  /\ InitResource
  /\ itemIn = NoItem
  /\ valueOut = <<>>
  /\ config \in Configs
  /\ environ \in Environs
  /\ configureResp = NotConfigured

\* allinklProvider.Configure
Configure ==
  /\ ~configureResp.configured
  /\ configureResp' = ConfigureResponse(config, environ)
  /\ UNCHANGED <<config, environ, clientVars, resolverVars, resourceVars>>

NextConfigure == Configure

\* SpecProvider: Terraform configures the provider once.
SpecProvider == InitConfigure /\ [][NextConfigure]_vars

\* ================================================================ claims

Waiting(p) == pc[p] = "sleep"

\* C1: the flood deadline never moves backward: every step, whatever the
\* interleaving of the operations' updateFloodTime calls (all with delays
\* >= 0), leaves floodTime at least where it was.
C1_DeadlineNeverDecreases == [][floodTime' >= floodTime]_vars

\* C2: whenever a record-action request is handed to HTTPClient.Do, the
\* clock has reached the client's flood deadline.
C2_SentOnlyAfterDeadline ==
  [][\A p \in Procs :
       (pc[p] = "send" /\ pc'[p] = "receive") => now >= floodTime]_vars

\* C9: an operation whose context is cancelled while it waits for the flood
\* deadline stops waiting before the deadline: it is never found still
\* asleep, holding the lock, when the deadline has come.
C9_WaitEndsOnCancel ==
  \A p \in Procs : ~(Waiting(p) /\ cancelledInWait[p] /\ mu = p /\ now >= sleepUntil[p])

\* C10, the exclusion: while an operation waits it holds the lock; no other
\* operation begins or ends a wait of its own or changes the deadline
\* meanwhile, and a wait begins only when no other is under way.
WaitExcludes ==
  /\ \A p \in Procs : Waiting(p) => mu = p
  /\ \A p, q \in Procs :
       (p # q /\ Waiting(p)) => (Waiting(q)' <=> Waiting(q))
  /\ (\E p \in Procs : Waiting(p)) => floodTime' = floodTime
  /\ \A q \in Procs :
       (~Waiting(q) /\ Waiting(q)') => \A p \in Procs : ~Waiting(p)

\* C10, the order: the lock goes to the caller that arrived first.
WaitInArrivalOrder ==
  \A p \in Procs :
    (mu # p /\ mu' = p) => (waiters = <<>> \/ Head(waiters) = p)

\* C10 as amended: the flood wait blocks while holding the flood lock, and
\* excludes every other wait and every change of the deadline.
C10_WaitHoldsLock == [][WaitExcludes]_vars

\* C10 as stated: the exclusion, and callers pass in order of arrival.
C10_WaitHoldsLockInOrder == [][WaitExcludes /\ WaitInArrivalOrder]_vars

\* C10 witness: one operation sleeps toward a deadline still ahead while
\* another is blocked on the lock.
C10_Witness ==
  \E p, q \in Procs :
    /\ Waiting(p) /\ now < sleepUntil[p]
    /\ pc[q] = "blocked" /\ waiters = <<q>>

\* ------------------------------------------------- claims on one operation
Last(seq) == seq[Len(seq)]
APIRequests(p) == {i \in 1..Len(sent[p]) : sent[p][i].endpoint = "KasApi"}
LoginRequests(p) == {i \in 1..Len(sent[p]) : sent[p][i].endpoint = "KasAuth"}

\* The operation of p got an answer to its record-action request, and
\* decodeXML read an envelope with a Fault from it.
APIFault(p) ==
  /\ rcvd[p] # <<>>
  /\ Last(rcvd[p]).endpoint = "KasApi"
  /\ Last(rcvd[p]).net
  /\ Last(rcvd[p]).Fault # <<>>

LoginFault(p) ==
  /\ rcvd[p] # <<>>
  /\ rcvd[p][1].endpoint = "KasAuth"
  /\ rcvd[p][1].net /\ rcvd[p][1].status = StatusOK
  /\ rcvd[p][1].Fault # <<>>

Called(p) == call[p].action # ""

\* C5: an operation called without a token on its context sends exactly one
\* login request, before anything else, and its record-action request carries
\* the token its own login returned; no variable of the client holds a token.
C5_OwnLoginPerOperation ==
  \A p \in Procs :
    (Called(p) /\ call[p].token = "") =>
      /\ LoginRequests(p) = {1}
      /\ sent[p][1] = AuthRequest
      /\ APIRequests(p) \subseteq {2}
      /\ \A i \in APIRequests(p) :
           /\ Len(rcvd[p]) >= 1
           /\ rcvd[p][1].endpoint = "KasAuth"
           /\ sent[p][i].AuthType = "session"
           /\ sent[p][i].AuthData = rcvd[p][1].token
      /\ pc[p] \in {"do", "blocked", "sleep", "send"} => req[p].AuthData = rcvd[p][1].token

C5_Witness ==
  \E p \in Procs :
    /\ call[p].token = "" /\ pc[p] = "done" /\ ret[p].err = NoErr
    /\ rcvd[p][1].token = "s2"
    /\ Len(sent[p]) = 2 /\ sent[p][2].AuthData = "s2"

\* C6: an operation called with a token on its context sends no login
\* request; Authentication hands that token back, and the record-action
\* request carries it.
C6_TokenOnContextIsUsed ==
  \A p \in Procs :
    (Called(p) /\ call[p].token # "") =>
      /\ LoginRequests(p) = {}
      /\ pc[p] # "login"
      /\ \A i \in APIRequests(p) : sent[p][i].AuthData = call[p].token
      /\ pc[p] \in {"do", "blocked", "sleep", "send", "receive", "update"} =>
           /\ ctx[p].token = call[p].token
           /\ req[p].AuthData = call[p].token

C6_Witness ==
  \E p \in Procs :
    /\ call[p].token = "t0" /\ pc[p] = "receive"
    /\ Len(sent[p]) = 1 /\ sent[p][1].endpoint = "KasApi" /\ sent[p][1].AuthData = "t0"

\* The number the server wrote as the flood delay of p's last response.
DelayOnWire(p) == CHOOSE n \in 0..MaxDelay : ToString(n) = Last(rcvd[p]).delay

\* C7: an operation that succeeds, whatever its action, updates the flood
\* deadline exactly once: after its response has been resolved and mapped,
\* in the step that returns the result, and to the time of the update plus
\* the delay its own response declares. An operation that has not succeeded
\* has not updated it.
C7_UpdatesOncePerSuccess ==
  /\ [](\A p \in Procs :
          updates[p] = IF pc[p] = "done" /\ ret[p].err = NoErr THEN 1 ELSE 0)
  /\ [][\A p \in Procs :
          updates'[p] > updates[p] =>
            /\ pc[p] = "update" /\ pc'[p] = "done"
            /\ ran[p] = {"getValue", "Decode"}
            /\ ret'[p] = [value |-> g[p].ReturnInfo, err |-> NoErr]
            /\ floodTime' = now + DelayOnWire(p)]_vars

C7_Witness ==
  \E p \in Procs :
    /\ call[p].action = "delete_dns_settings"
    /\ pc[p] = "done" /\ ret[p].err = NoErr /\ ret[p].value = TRUE
    /\ updates[p] = 1
    /\ Last(rcvd[p]).delay = "1" /\ now = 1 /\ floodTime = 2

\* C8: GetDNSSettings, answered without a fault by a response whose record
\* list node has no child items, returns the empty sequence and no error.
C8_NoRecordsIsEmptySequence ==
  \A p \in Procs :
    ( /\ call[p].action = "get_dns_settings"
      /\ rcvd[p] # <<>>
      /\ Last(rcvd[p]).endpoint = "KasApi"
      /\ Last(rcvd[p]).net /\ Last(rcvd[p]).status = StatusOK
      /\ Last(rcvd[p]).Fault = <<>>
      /\ Last(rcvd[p]).records = 0 )
    => /\ pc[p] \in {"update", "done"}
       /\ pc[p] = "done" => (ret[p].err = NoErr /\ ret[p].value = <<>>)

\* ------------------------------------------------------------- resolver
Resolved == valueOut # <<>>
HasArrayChildren(n) == Len(n.Items) > 0 /\ n.Type = "SOAP-ENC:Array"
\* Nothing ranks before the children: no nil attribute, no text, no value.
ChildrenDecide(n) == n.Raw = "" /\ n.Text = "" /\ n.Value = <<>>

IsChildSequence(n, v) ==
  /\ v.k = "slice"
  /\ Len(v.v) = Len(n.Items)
  /\ \A i \in 1..Len(n.Items) : v.v[i] = getValue(n.Items[i])

\* C11 (as amended): a node with at least one child and the array type tag,
\* and with no nil attribute, no text and no value sub-node, resolves to a
\* sequence as long as its children whose i-th element is the resolved value
\* of the i-th child.
C11_ArrayIsChildSequence ==
  (Resolved /\ HasArrayChildren(itemIn) /\ ChildrenDecide(itemIn))
    => IsChildSequence(itemIn, valueOut[1])

\* C11 (as stated): every node with at least one child and the array type
\* tag resolves to the sequence of its children's resolved values.
C11_EveryArrayIsChildSequence ==
  (Resolved /\ HasArrayChildren(itemIn)) => IsChildSequence(itemIn, valueOut[1])

\* An array with two children that resolve alike has been resolved.
C11_Witness ==
  /\ Resolved /\ HasArrayChildren(itemIn) /\ ChildrenDecide(itemIn)
  /\ Len(itemIn.Items) = 2
  /\ itemIn.Items[1] = itemIn.Items[2]
  /\ Len(valueOut[1].v) = 2

HasMapChildren(n) ==
  /\ Len(n.Items) > 0 /\ n.Type # "SOAP-ENC:Array"
  /\ \A i \in 1..Len(n.Items) : n.Items[i].Key # <<>>

KeyTexts(n) == {n.Items[i].Key[1].Text : i \in 1..Len(n.Items)}
LastWith(n, key) ==
  CHOOSE i \in 1..Len(n.Items) :
    /\ n.Items[i].Key[1].Text = key
    /\ \A j \in (i + 1)..Len(n.Items) : n.Items[j].Key[1].Text # key

IsChildMapping(n, v) ==
  /\ v.k = "map"
  /\ DOMAIN v.v = KeyTexts(n)
  /\ \A key \in KeyTexts(n) : v.v[key] = getValue(n.Items[LastWith(n, key)])

\* C12 (as amended): a node with at least one child, no array type tag and
\* a key sub-node on each child, and with no nil attribute, no text and no
\* value sub-node, resolves to a mapping whose keys are the children's key
\* texts, each mapped to the resolved value of the last child with that key.
C12_MapIsLastWriteWins ==
  (Resolved /\ HasMapChildren(itemIn) /\ ChildrenDecide(itemIn))
    => IsChildMapping(itemIn, valueOut[1])

\* C12 (as stated): every node with at least one child, no array type tag
\* and a key sub-node on each child resolves to that mapping.
C12_EveryMapIsLastWriteWins ==
  (Resolved /\ HasMapChildren(itemIn)) => IsChildMapping(itemIn, valueOut[1])

\* A map node whose two children carry the same key and different values
\* has been resolved.
C12_Witness ==
  /\ Resolved /\ HasMapChildren(itemIn) /\ ChildrenDecide(itemIn)
  /\ Len(itemIn.Items) = 2
  /\ getKey(itemIn.Items[1]) = getKey(itemIn.Items[2])
  /\ getValue(itemIn.Items[1]) # getValue(itemIn.Items[2])
  /\ valueOut[1].k = "map"

\* C13: the six rules in their order, the first that matches deciding: a
\* nil attribute gives a boolean; else a text gives a scalar by its type
\* tag; else a value sub-node is unwrapped; else children under the array
\* tag give a sequence; else children give a map; else the empty string.
C13_RulesInPrecedence ==
  Resolved =>
    LET n == itemIn
        v == valueOut[1]
    IN /\ n.Raw # "" => v.k = "bool"
       /\ (n.Raw = "" /\ n.Text # "") =>
            /\ v.k = CASE n.Type = "xsd:float" -> "float64"
                       [] n.Type = "xsd:int" -> "int64"
                       [] OTHER -> "string"
            /\ v.k = "string" => v.v = n.Text
       /\ (n.Raw = "" /\ n.Text = "" /\ n.Value # <<>>) => v = getValue(n.Value[1])
       /\ (ChildrenDecide(n) /\ HasArrayChildren(n)) => IsChildSequence(n, v)
       /\ (ChildrenDecide(n) /\ Len(n.Items) > 0 /\ n.Type # "SOAP-ENC:Array") =>
            v.k = "map"
       /\ (ChildrenDecide(n) /\ Len(n.Items) = 0) => v = VStr("")

\* A node with a text, a value sub-node and children at once has been
\* resolved, by its text.
C13_Witness ==
  /\ Resolved
  /\ itemIn.Raw = "" /\ itemIn.Text # "" /\ itemIn.Value # <<>>
  /\ Len(itemIn.Items) > 0
  /\ valueOut[1] = VInt(7)

BoolLiterals ==
  {"1", "t", "T", "TRUE", "true", "True", "0", "f", "F", "FALSE", "false", "False"}
\* The text is a decimal numeral within the range of the integer type.
ValidInt(text) ==
  IsNumeral(text) /\ NumeralValue(text) >= MinInt64 /\ NumeralValue(text) <= MaxInt64

\* C14: decoding a scalar never fails and falls back on the zero value: a
\* nil attribute that is no boolean literal resolves to false, and an
\* int-tagged text that is no valid integer of the width, malformed or out
\* of range, resolves to the integer 0.
C14_InvalidScalarIsZero ==
  Resolved =>
    /\ (itemIn.Raw # "" /\ itemIn.Raw \notin BoolLiterals) => valueOut[1] = VBool(FALSE)
    /\ (itemIn.Raw = "" /\ itemIn.Text # "" /\ itemIn.Type = "xsd:int"
          /\ ~ValidInt(itemIn.Text)) => valueOut[1] = VInt(0)

\* ------------------------------------------- claims on the response checks
\* The response p's operation got last, and has dealt with.
Answered(p) == rcvd[p] # <<>> /\ Last(rcvd[p]).net

\* A well-formed envelope with status 200 that holds no Fault and either no
\* response element or a response element without a return node.
ShapeMismatch(r) ==
  /\ r.net /\ r.status = StatusOK
  /\ r.body.wellformed /\ r.body.Fault = <<>>
  /\ (r.body.Response = <<>> \/ r.body.Response[1].Return = <<>>)

\* C15: a well-formed response that does not have the shape of the envelope,
\* to the record-action request or to the login, makes the operation return
\* a decode error: it neither crashes nor returns a success value.
C15_ShapeMismatchIsDecodeError ==
  \A p \in Procs :
    (rcvd[p] # <<>> /\ ShapeMismatch(Last(rcvd[p]))) =>
      /\ pc[p] = "done"
      /\ ret[p].err = DecodeXMLError
      /\ ret[p].value = ZeroValue(call[p].action)

UnexpectedStatus(p) ==
  /\ pc[p] = "done"
  /\ ret[p].err =
       UnexpectedStatusCodeError(Last(rcvd[p]).status, <<Document(Last(rcvd[p]).body)>>)
  /\ ret[p].value = ZeroValue(call[p].action)

\* The body went on to decodeXML: the operation fails with the decode error
\* exactly when the body is not well-formed.
Decoded_(p) ==
  /\ ret[p].err.kind # "UnexpectedStatusCodeError"
  /\ ret[p].err = DecodeXMLError <=> ~Last(rcvd[p]).body.wellformed

C17_NoRetry ==
  \A p \in Procs :
    /\ Cardinality(LoginRequests(p)) <= 1
    /\ Cardinality(APIRequests(p)) <= 1
    /\ Len(sent[p]) <= 2
    /\ Len(rcvd[p]) <= Len(sent[p])

\* An operation whose record-action request was answered by status 500 has
\* returned, having sent the login and that one request.
C17_Witness ==
  \E p \in Procs :
    /\ pc[p] = "done" /\ ret[p].err.kind = "UnexpectedStatusCodeError"
    /\ Len(sent[p]) = 2 /\ Len(rcvd[p]) = 2
    /\ Last(rcvd[p]).endpoint = "KasApi" /\ Last(rcvd[p]).status = 500

\* The five fields of a record as JSON members.
FiveFields(record) ==
  [zone_host |-> record.ZoneHost, record_type |-> record.RecordType,
   record_name |-> record.RecordName, record_data |-> record.RecordData,
   record_aux |-> record.RecordAux]
FiveKeys == {"zone_host", "record_type", "record_name", "record_data", "record_aux"}

\* The action and the parameters the operation with these arguments is to
\* send: create is called with a record without id, update with a record
\* with one.
SendsItsOwn(action, args, r) ==
  /\ r.Action = action
  /\ action = "get_dns_settings" =>
       /\ r.RequestParams.zone_host = args.zone
       /\ ("record_id" \in DOMAIN r.RequestParams) <=> (args.recordID # "")
       /\ args.recordID # "" => r.RequestParams.record_id = args.recordID
       /\ DOMAIN r.RequestParams \subseteq {"zone_host", "record_id"}
  /\ (action = "add_dns_settings" /\ args.record.RecordId = "") =>
       r.RequestParams = FiveFields(args.record)
  /\ (action = "update_dns_settings" /\ args.record.RecordId # "") =>
       /\ DOMAIN r.RequestParams = FiveKeys \cup {"record_id"}
       /\ r.RequestParams.record_id = args.record.RecordId
       /\ \A k \in FiveKeys : r.RequestParams[k] = FiveFields(args.record)[k]
  /\ action = "delete_dns_settings" =>
       r.RequestParams = [record_id |-> args.recordID]

\* C18: each operation sends its own action name and parameters: list the
\* zone host, and the record id if and only if the filter is not empty;
\* create the five fields of the record and no record id; update the five
\* fields and the record id; delete the record id only.
C18_OwnActionAndParams ==
  \A p \in Procs :
    /\ \A i \in APIRequests(p) : SendsItsOwn(call[p].action, call[p].args, sent[p][i])
    /\ pc[p] \in {"do", "blocked", "sleep", "send"} =>
         SendsItsOwn(call[p].action, call[p].args, req[p])

\* A create of the record example.com / A / www / 1.2.3.4 / 0 has sent
\* add_dns_settings with these five parameters and got the id "42" back.
C18_Witness ==
  \E p \in Procs :
    /\ call[p].action = "add_dns_settings" /\ call[p].args.record.RecordId = ""
    /\ pc[p] = "done" /\ ret[p] = [value |-> "42", err |-> NoErr]
    /\ Last(sent[p]).Action = "add_dns_settings"
    /\ Last(sent[p]).RequestParams =
         [zone_host |-> "example.com", record_type |-> "A", record_name |-> "www",
          record_data |-> "1.2.3.4", record_aux |-> 0]

\* ------------------------------------------------ the resource adapter
\* The handler h has called the list operation, and it returned n records
\* without an error.
Listed(h, n) ==
  /\ h.list # <<>>
  /\ h.list[1].err = NoErr
  /\ Len(h.list[1].value) = n

\* The state the handler writes from the one record it listed: the id it
\* asked for, and the fields of the record.
WrittenFrom(h, id) ==
  LET dns == h.list[1].value[1] IN
  /\ tfState' # <<>>
  /\ tfState'[1].ID = id
  /\ tfState'[1].ZoneHost = <<dns.ZoneHost>>
  /\ tfState'[1].RecordType = <<dns.RecordType>>
  /\ tfState'[1].RecordName = <<dns.RecordName>>
  /\ tfState'[1].RecordData = <<dns.RecordData>>
  /\ tfState'[1].RecordAux = <<dns.RecordAux>>

RereadStep ==
  handled'.handler \in {"Read", "Update"} =>
    /\ handled'.set <=> Listed(handled', 1)
    /\ Listed(handled', 1) => WrittenFrom(handled', tfState[1].ID)
    /\ ~Listed(handled', 1) => tfState' = tfState
    /\ \A n \in {0, 2} : Listed(handled', n) => HasError(diags')

\* C19: Read, and the re-read inside Update, write the Terraform state if
\* and only if the list operation succeeded and returned exactly one record,
\* and then from that record; when it returned zero or two records an error
\* diagnostic is reported and the state is left as it was.
C19_ExactlyOneRecord == [][RereadStep]_vars

\* Read has listed two records: it reported an error and wrote nothing, the
\* state staying as Create had written it.
C19_Witness ==
  /\ handled.handler = "Read" /\ Listed(handled, 2)
  /\ HasError(diags) /\ ~handled.set
  /\ tfState # <<>> /\ tfState[1].ID = <<"42">> /\ tfState[1].RecordName = <<"mail">>

\* ImportState has run on the identifier handled.id[1].
Imported == handled.handler = "ImportState"
NoSlash(s) == \A i \in 1..Len(s) : s[i] # "/"
\* The part of id before its first "/" and the part after it (all of id and
\* nothing when id has no "/").
BeforeFirstSlash(id) ==
  IF NoSlash(id) THEN id
  ELSE LET k == CHOOSE i \in 1..Len(id) : id[i] = "/" /\ NoSlash(SubSeq(id, 1, i - 1))
       IN SubSeq(id, 1, k - 1)
AfterFirstSlash(id) ==
  IF NoSlash(id) THEN <<>>
  ELSE SubSeq(id, Len(BeforeFirstSlash(id)) + 2, Len(id))

\* zone_host and id, and nothing else, are set to these two strings.
SetsOnly(zoneHost, recordID) ==
  /\ handled.set /\ diags = <<>>
  /\ tfState = <<dnsResourceModel(<<Str(recordID)>>, Null, <<Str(zoneHost)>>,
                                  Null, Null, Null, Null)>>

SplitsAtFirstSlash ==
  LET id == handled.id[1] IN
  IF BeforeFirstSlash(id) # <<>> /\ AfterFirstSlash(id) # <<>>
    THEN SetsOnly(BeforeFirstSlash(id), AfterFirstSlash(id))
    ELSE ~handled.set /\ tfState = <<>> /\ HasError(diags)

\* C20: ImportState splits the identifier at its first "/" and sets
\* zone_host and id if and only if both parts are non-empty, any other
\* identifier reporting an error and setting nothing; for every non-empty
\* zone host without "/" and every non-empty record id, importing
\* zoneHost + "/" + recordId yields exactly that zone host and record id.
C20_ImportSplitsAtFirstSlash ==
  Imported =>
    /\ SplitsAtFirstSlash
    /\ \A zoneHost, recordID \in ImportIDs :
         (/\ NoSlash(zoneHost) /\ zoneHost # <<>> /\ recordID # <<>>
          /\ handled.id[1] = zoneHost \o <<"/">> \o recordID)
           => SetsOnly(zoneHost, recordID)

\* C20 as stated, for every zone host without "/", the empty one too.
C20_ImportOfEveryZoneHost ==
  Imported =>
    /\ SplitsAtFirstSlash
    /\ \A zoneHost, recordID \in ImportIDs :
         (/\ NoSlash(zoneHost) /\ recordID # <<>>
          /\ handled.id[1] = zoneHost \o <<"/">> \o recordID)
           => SetsOnly(zoneHost, recordID)

\* The import of "z//" has set zone_host to "z" and id to "/".
C20_Witness ==
  /\ Imported /\ handled.id[1] = <<"z", "/", "/">>
  /\ handled.set
  /\ tfState # <<>> /\ tfState[1].ZoneHost = <<"z">> /\ tfState[1].ID = <<"/">>

\* --------------------------------------------------- failing operations
\* The operation of p has returned an error to its caller.
Failed(p) == pc[p] = "done" /\ ret[p].err # NoErr

\* C21: an operation that fails, at whichever step (the login, the
\* transport, the status, the decoding, a Fault, the mapping), leaves the
\* flood deadline as it was when the operation was called.
C21_FailureKeepsDeadline ==
  \A p \in Procs : Failed(p) => floodTime = call[p].floodTime /\ updates[p] = 0

\* An operation called under the deadline 1, set by the call before it, has
\* waited, sent its request and failed on the answer, at time 1.
C21_Witness ==
  \E p \in Procs :
    /\ Failed(p) /\ ret[p].err.kind = "Fault"
    /\ call[p].floodTime = 1 /\ floodTime = 1 /\ now = 1
    /\ Len(sent[p]) = 2

\* ----------------------------------------------------- the flood lock
\* All that belongs to the operation of goroutine p alone.
Local(p) ==
  <<pc[p], call[p], ctx[p], req[p], sleepUntil[p], g[p], ret[p], sent[p], rcvd[p],
    ran[p], updates[p], cancelledInWait[p]>>

LockDiscipline ==
  \* a write of floodTime is that of updateFloodTime, which held the mutex
  \* no one else had and has released it
  /\ floodTime' # floodTime =>
       /\ mu = 0 /\ mu' = 0
       /\ \E p \in Procs : pc[p] = "update" /\ updates'[p] = updates[p] + 1
  \* floodTime is read at the start of the wait, by the holder of the mutex
  /\ \A p \in Procs :
       (pc[p] # "sleep" /\ pc'[p] = "sleep") => mu' = p /\ sleepUntil'[p] = floodTime
  \* the mutex is held during the wait and at no other point of an operation
  /\ \A p \in Procs : mu' = p => pc'[p] = "sleep"
  /\ \A p \in Procs : (pc[p] = "sleep" /\ pc'[p] # "sleep") => mu = p /\ mu' = 0
  \* a step of one operation touches nothing of another: what operations
  \* share is floodTime and its mutex
  /\ \A p, q \in Procs : (p # q /\ Local(p)' # Local(p)) => Local(q)' = Local(q)

\* C22: the flood deadline is the only mutable state that concurrent
\* operations on one client share; every read and every write of it happens
\* with the flood lock held, and the lock is released after the wait and
\* after the update, no operation holding it at any other point.
C22_DeadlineOnlyUnderLock == [][LockDiscipline]_vars

\* One operation holds the lock in its wait for the deadline while another
\* has its answer and is about to call updateFloodTime.
C22_Witness ==
  \E p, q \in Procs :
    /\ p # q
    /\ mu = p /\ pc[p] = "sleep" /\ now < sleepUntil[p]
    /\ pc[q] = "update"

\* ------------------------------------------------------ the login request
\* The step in which goroutine p hands its login request to HTTPClient.Do.
SendsLogin(p) == pc[p] # "login" /\ pc'[p] = "login" /\ sent'[p] = <<AuthRequest>>

\* C23: the login request of Authentication is under flood control like
\* any other request: it is sent only when the time is at or after the flood
\* deadline, also when a record-action call that has just completed pushed
\* the deadline forward.
C23_LoginAfterDeadline ==
  [][\A p \in Procs : SendsLogin(p) => now >= floodTime]_vars

\* ------------------------------------------------------------- Delete
\* DeleteDNSSettings has returned to the Delete handler.
DeleteReturned == handled.handler = "Delete" /\ handled.deleted # <<>>

\* C24: Delete reports an "Error Deleting" diagnostic if and only if the
\* delete operation of the client did not return true, and it completes
\* without crashing whatever the client returned, (false, no error) too.
C24_DeleteReportsAndCompletes ==
  DeleteReturned =>
    /\ ~handled.crashed
    /\ HasError(diags) <=> ~handled.deleted[1].value

\* ------------------------------------------------------- the password
\* The token on the context of p's operation once Authentication is over:
\* the one the caller attached, or the one the login returned.
TokenOnContext(p) ==
  IF call[p].token # "" THEN call[p].token ELSE rcvd[p][1].token

PasswordOnlyInLogin(p, r) ==
  /\ r.endpoint = "KasAuth" <=> r.AuthType = "plain"
  /\ r.endpoint = "KasAuth" => r.AuthData = Password
  /\ r.endpoint = "KasApi" =>
       /\ r.AuthType = "session"
       /\ r.AuthData = TokenOnContext(p)
       /\ Password \notin {r.AuthData, r.Login, r.Action}

\* C25: the password goes to the authentication endpoint only: every
\* record-action request has auth mode "session", the token of the context
\* as auth data and the password nowhere, and the login request alone has
\* auth mode "plain" with the password.
C25_PasswordOnlyToLogin ==
  \A p \in Procs :
    /\ \A i \in 1..Len(sent[p]) : PasswordOnlyInLogin(p, sent[p][i])
    /\ pc[p] \in {"do", "blocked", "sleep", "send"} => PasswordOnlyInLogin(p, req[p])

\* An operation has sent its login request, with the password, and then its
\* record-action request, with the token "s2" the login returned.
C25_Witness ==
  \E p \in Procs :
    /\ Len(sent[p]) = 2
    /\ sent[p][1].endpoint = "KasAuth" /\ sent[p][1].AuthData = Password
    /\ sent[p][2].endpoint = "KasApi" /\ sent[p][2].AuthType = "session"
    /\ sent[p][2].AuthData = "s2" /\ sent[p][2].Action = "delete_dns_settings"

\* ------------------------------------------------ configuring the provider
\* The resolved value of an attribute: the configured value when the
\* configuration sets it (it is not null), the environment variable otherwise.
ResolvedUsername ==
  IF config.Username.null THEN environ.ALLINKL_USERNAME ELSE config.Username.value
ResolvedPassword ==
  IF config.Password.null THEN environ.ALLINKL_PASSWORD ELSE config.Password.value

ProviderHasError ==
  \E i \in 1..Len(configureResp.Diagnostics) :
    configureResp.Diagnostics[i].severity = "error"

\* C26: Configure creates a client, for the resolved username and password,
\* if and only if both are non-empty; in every other case it reports an
\* error diagnostic and hands no client to the resources.
C26_ClientIffBothResolved ==
  configureResp.configured =>
    IF ResolvedUsername # "" /\ ResolvedPassword # ""
      THEN /\ configureResp.ResourceData = <<NewClient(ResolvedUsername, ResolvedPassword)>>
           /\ ~ProviderHasError
      ELSE /\ configureResp.ResourceData = <<>>
           /\ ProviderHasError

\* The configuration sets the username and leaves the password null, the
\* environment holds both: the client is created for the configured
\* username and the password of the environment.
C26_Witness ==
  /\ configureResp.configured
  /\ config.Username = StringValue("alice") /\ config.Password = StringNull
  /\ environ = [ALLINKL_USERNAME |-> "bob", ALLINKL_PASSWORD |-> "hunter2"]
  /\ configureResp.ResourceData = <<NewClient("alice", "hunter2")>>

====
